---------------------------- MODULE Spec2Model ----------------------------
(***************************************************************************)
(* Model of the query decomposition and multi-step retrieval pipeline of   *)
(* the financial RAG assistant (src/src/query_decomposer.py,               *)
(* src/src/multi_step_retriever.py, src/src/vector_store.py,               *)
(* src/src/rag_assistant.py).                                              *)
(*                                                                         *)
(* Text is modelled by TLA+ strings; substring tests, lower-casing, the    *)
(* year regular expression and the f-string formatting are computed on     *)
(* the characters.  An Optional value is a sequence of length at most one: *)
(* None is << >> and a set value v is << v >>.                             *)
(*                                                                         *)
(* Spec is the assistant answering queries one after the other, between   *)
(* calls that load, store and reset its data; the Qdrant collection is the *)
(* list of its points.  DecompositionSpec runs decompose_query on every    *)
(* query.  ExtractionSpec and SynthesisSpec start process_query after its  *)
(* retrieval step, on retrieval results of any content, and run            *)
(* extract_financial_data and synthesize_context on them.  A monetary      *)
(* value is a decimal numeral, so that billions need no wide integers.     *)
(***************************************************************************)
EXTENDS Integers, Sequences, FiniteSets, TLC

VARIABLES
    is_initialized,     \* FinancialRAGAssistant.is_initialized
    document_chunks,    \* FinancialRAGAssistant.document_chunks (chunk ids)
    collection,         \* None or the points of the Qdrant collection
    pc,                 \* position of the assistant's single thread of control
    query,              \* the query of the current answer_query call
    companies,          \* local of decompose_query
    years,              \* local of decompose_query
    metrics,            \* local of decompose_query
    decomposed,         \* None or the DecomposedQuery of the current call
    idx,                \* loop position of retrieve_multi_step (1-based)
    retrieval_results,  \* list being built by retrieve_multi_step
    search_log,         \* similarity_search calls of the current answer_query
    calculation_data,   \* local of process_query (None or the extracted groups)
    synthesized_context,\* None or the rendered entries of synthesize_context
    generate_calls,     \* number of chat completion calls of the current call
    answer,             \* None or the text returned by answer_query
    last_return         \* None or the last completed call and what it returned

vars == << is_initialized, document_chunks, collection, pc, query, companies, years,
           metrics, decomposed, idx, retrieval_results, search_log,
           calculation_data, synthesized_context, generate_calls, answer,
           last_return >>

---------------------------------------------------------------------------
(* Bounds of the model *)

\* at most this many vocabulary phrases make up a query
MaxWords == 4
\* at most this many points are returned by one search of the model
MaxHits == 1

---------------------------------------------------------------------------
(* Text helpers *)

None == << >>
Some(v) == << v >>

\* Python: p in s
Contains(s, p) ==
    \E i \in 1..(Len(s) - Len(p) + 1) : SubSeq(s, i, i + Len(p) - 1) = p

LowerChar(c) ==
    CASE c = "A" -> "a" [] c = "B" -> "b" [] c = "C" -> "c" [] c = "D" -> "d"
      [] c = "E" -> "e" [] c = "F" -> "f" [] c = "G" -> "g" [] c = "H" -> "h"
      [] c = "I" -> "i" [] c = "J" -> "j" [] c = "K" -> "k" [] c = "L" -> "l"
      [] c = "M" -> "m" [] c = "N" -> "n" [] c = "O" -> "o" [] c = "P" -> "p"
      [] c = "Q" -> "q" [] c = "R" -> "r" [] c = "S" -> "s" [] c = "T" -> "t"
      [] c = "U" -> "u" [] c = "V" -> "v" [] c = "W" -> "w" [] c = "X" -> "x"
      [] c = "Y" -> "y" [] c = "Z" -> "z" [] OTHER -> c

\* Python: s.lower()
RECURSIVE Lower(_)
Lower(s) ==
    IF s = "" THEN ""
    ELSE LowerChar(SubSeq(s, 1, 1)) \o Lower(SubSeq(s, 2, Len(s)))

IsDigit(c) == c \in {"0", "1", "2", "3", "4", "5", "6", "7", "8", "9"}

DigitValue(c) ==
    CASE c = "0" -> 0 [] c = "1" -> 1 [] c = "2" -> 2 [] c = "3" -> 3
      [] c = "4" -> 4 [] c = "5" -> 5 [] c = "6" -> 6 [] c = "7" -> 7
      [] c = "8" -> 8 [] c = "9" -> 9

DigitChar(d) ==
    CASE d = 0 -> "0" [] d = 1 -> "1" [] d = 2 -> "2" [] d = 3 -> "3"
      [] d = 4 -> "4" [] d = 5 -> "5" [] d = 6 -> "6" [] d = 7 -> "7"
      [] d = 8 -> "8" [] d = 9 -> "9"

\* regex \w on the characters the queries are made of
IsWordChar(c) ==
    \/ IsDigit(c)
    \/ c = "_"
    \/ LowerChar(c) \in {"a", "b", "c", "d", "e", "f", "g", "h", "i", "j",
                         "k", "l", "m", "n", "o", "p", "q", "r", "s", "t",
                         "u", "v", "w", "x", "y", "z"}

\* Python: str(n) for a natural number
RECURSIVE IntToStr(_)
IntToStr(n) ==
    IF n < 10 THEN DigitChar(n)
    ELSE IntToStr(n \div 10) \o DigitChar(n % 10)

\* Python: int(s) for a string of decimal digits
RECURSIVE StrToInt(_)
StrToInt(s) ==
    IF Len(s) = 1 THEN DigitValue(s)
    ELSE 10 * StrToInt(SubSeq(s, 1, Len(s) - 1))
         + DigitValue(SubSeq(s, Len(s), Len(s)))

\* the elements of a sequence
Range(seq) == { seq[i] : i \in 1..Len(seq) }

\* the sequences without repetition that list exactly the set S
Orderings(S) ==
    { s \in [1..Cardinality(S) -> S] : Range(s) = S }

---------------------------------------------------------------------------
(* query_decomposer.py: tables of QueryDecomposer.__init__ *)

SIMPLE_DIRECT == "simple_direct"
COMPARATIVE   == "comparative"
CROSS_COMPANY == "cross_company"
\* QueryType.TEMPORAL (the bare name is a reserved word of TLA+)
TEMPORAL_TYPE == "temporal"
CALCULATION   == "calculation"

QueryType ==
    {SIMPLE_DIRECT, COMPARATIVE, CROSS_COMPANY, TEMPORAL_TYPE, CALCULATION}

\* the alias table, in the insertion order the dict is iterated in
company_mappings ==
    << <<"google", "GOOGL">>, <<"alphabet", "GOOGL">>,
       <<"microsoft", "MSFT">>, <<"nvidia", "NVDA">>,
       <<"googl", "GOOGL">>, <<"msft", "MSFT">>, <<"nvda", "NVDA">> >>

\* canonical metric name and its surface forms, in insertion order
financial_metrics ==
    << <<"revenue", {"revenue", "sales", "total revenue", "net sales"}>>,
       <<"profit", {"profit", "net income", "earnings", "net profit"}>>,
       <<"operating_income",
         {"operating income", "operating profit", "operating earnings"}>>,
       <<"operating_margin", {"operating margin", "operating profit margin"}>>,
       <<"gross_margin", {"gross margin", "gross profit margin"}>>,
       <<"cash", {"cash", "cash and equivalents", "cash position"}>>,
       <<"debt", {"debt", "total debt", "long-term debt"}>>,
       <<"assets", {"assets", "total assets"}>>,
       <<"equity", {"equity", "shareholders equity", "stockholders equity"}>>,
       <<"eps", {"earnings per share", "eps"}>>,
       <<"data_center_revenue",
         {"data center revenue", "datacenter revenue", "data center sales"}>> >>

\* all keywords of the three lists of temporal_keywords
temporal_keywords ==
    {"growth", "grew", "increase", "increased", "change"}
    \cup {"decline", "decreased", "drop", "fell"}
    \cup {"compare", "comparison", "versus", "vs", "compared to"}

comparison_keywords ==
    {"highest", "lowest", "best", "worst", "most", "least",
     "greater", "better", "which company", "who had"}

\* the literal list of classify_query_type
calculation_keywords == {"calculate", "compute", "growth rate", "percentage"}

\* the literal list of decompose_query
growth_keywords == {"growth", "grew", "increase"}

\* the literal default of decompose_cross_company_query
Roster == <<"GOOGL", "MSFT", "NVDA">>

YearLow  == 2020
YearHigh == 2025

\* Python: any(keyword in s for keyword in kws)
ContainsAny(s, kws) == \E k \in kws : Contains(s, k)

---------------------------------------------------------------------------
(* query_decomposer.py: entity extraction *)

RECURSIVE ExtractCompaniesFrom(_, _, _)
ExtractCompaniesFrom(query_lower, k, acc) ==
    IF k > Len(company_mappings) THEN acc
    ELSE LET name   == company_mappings[k][1]
             ticker == company_mappings[k][2]
         IN  ExtractCompaniesFrom(
                 query_lower, k + 1,
                 IF Contains(query_lower, name) /\ ticker \notin Range(acc)
                 THEN Append(acc, ticker) ELSE acc)

extract_companies(q) == ExtractCompaniesFrom(Lower(q), 1, << >>)

\* a match of \b(20\d{2})\b starting at position i of s
YearMatchAt(s, i) ==
    /\ i + 3 <= Len(s)
    /\ SubSeq(s, i, i + 1) = "20"
    /\ IsDigit(SubSeq(s, i + 2, i + 2))
    /\ IsDigit(SubSeq(s, i + 3, i + 3))
    /\ (i = 1 \/ ~IsWordChar(SubSeq(s, i - 1, i - 1)))
    /\ (i + 3 = Len(s) \/ ~IsWordChar(SubSeq(s, i + 4, i + 4)))

\* re.findall on the query, kept when 2020 <= year <= 2025, in text order
RECURSIVE YearsFrom(_, _)
YearsFrom(s, i) ==
    IF i > Len(s) THEN << >>
    ELSE IF YearMatchAt(s, i)
         THEN LET year == StrToInt(SubSeq(s, i, i + 3))
              IN  (IF YearLow <= year /\ year <= YearHigh
                   THEN <<year>> ELSE << >>) \o YearsFrom(s, i + 4)
         ELSE YearsFrom(s, i + 1)

\* list(set(ints)) in CPython: an int hashes to itself and the set is
\* listed by slot, hash modulo the table size; the table has 8 slots and is
\* rebuilt with 32 when the fifth element is added.  The years 2020..2025
\* never share a slot, so no probing takes place.
SetToList(S) ==
    LET slots == IF Cardinality(S) <= 4 THEN 8 ELSE 32
    IN  CHOOSE s \in Orderings(S) :
            \A i, j \in 1..Len(s) : i < j => s[i] % slots < s[j] % slots

\* extract_years: the distinct years, listed as list(set(years)) lists them
\* (2023 and 2024 come out as [2024, 2023])
extract_years(q) == SetToList(Range(YearsFrom(q, 1)))

RECURSIVE ExtractMetricsFrom(_, _)
ExtractMetricsFrom(query_lower, k) ==
    IF k > Len(financial_metrics) THEN << >>
    ELSE (IF ContainsAny(query_lower, financial_metrics[k][2])
          THEN <<financial_metrics[k][1]>> ELSE << >>)
         \o ExtractMetricsFrom(query_lower, k + 1)

extract_metrics(q) == ExtractMetricsFrom(Lower(q), 1)

---------------------------------------------------------------------------
(* query_decomposer.py: classification and decomposition *)

\* variant of classify_query_type that needs more than two companies
classify_query_type_three_companies(q, cs, ys) ==
    LET query_lower == Lower(q)
    IN  IF Len(cs) > 2 \/ ContainsAny(query_lower, comparison_keywords)
        THEN CROSS_COMPANY
        ELSE IF Len(ys) > 1 \/ ContainsAny(query_lower, temporal_keywords)
        THEN COMPARATIVE
        ELSE IF ContainsAny(query_lower, calculation_keywords)
        THEN CALCULATION
        ELSE SIMPLE_DIRECT

\* variant of classify_query_type that tests the calculation keywords
\* before the temporal rule
classify_query_type_calculation_first(q, cs, ys) ==
    LET query_lower == Lower(q)
    IN  IF Len(cs) > 1 \/ ContainsAny(query_lower, comparison_keywords)
        THEN CROSS_COMPANY
        ELSE IF ContainsAny(query_lower, calculation_keywords)
        THEN CALCULATION
        ELSE IF Len(ys) > 1 \/ ContainsAny(query_lower, temporal_keywords)
        THEN COMPARATIVE
        ELSE SIMPLE_DIRECT

\* variant of classify_query_type that answers TEMPORAL when only a
\* temporal keyword matched
classify_query_type_temporal(q, cs, ys) ==
    LET query_lower == Lower(q)
    IN  IF Len(cs) > 1 \/ ContainsAny(query_lower, comparison_keywords)
        THEN CROSS_COMPANY
        ELSE IF Len(ys) > 1
        THEN COMPARATIVE
        ELSE IF ContainsAny(query_lower, temporal_keywords)
        THEN TEMPORAL_TYPE
        ELSE IF ContainsAny(query_lower, calculation_keywords)
        THEN CALCULATION
        ELSE SIMPLE_DIRECT

\* variant of classify_query_type whose cross-company rule looks at the
\* number of companies only
classify_query_type_companies_only(q, cs, ys) ==
    LET query_lower == Lower(q)
    IN  IF Len(cs) > 1
        THEN CROSS_COMPANY
        ELSE IF Len(ys) > 1 \/ ContainsAny(query_lower, temporal_keywords)
        THEN COMPARATIVE
        ELSE IF ContainsAny(query_lower, calculation_keywords)
        THEN CALCULATION
        ELSE SIMPLE_DIRECT

classify_query_type(q, cs, ys) ==
    LET query_lower == Lower(q)
    IN  IF Len(cs) > 1 \/ ContainsAny(query_lower, comparison_keywords)
        THEN CROSS_COMPANY
        ELSE IF Len(ys) > 1 \/ ContainsAny(query_lower, temporal_keywords)
        THEN COMPARATIVE
        ELSE IF ContainsAny(query_lower, calculation_keywords)
        THEN CALCULATION
        ELSE SIMPLE_DIRECT

SubQuery(text, query_type, company, year, metric) ==
    [text |-> text, query_type |-> query_type, company |-> company,
     year |-> year, metric |-> metric, section_hint |-> None]

\* Python: xs[0] if xs else None
FirstOrNone(xs) == IF Len(xs) > 0 THEN Some(xs[1]) ELSE None

\* Python: xs[-1] if xs else None
LastOrNone(xs) == IF Len(xs) > 0 THEN Some(xs[Len(xs)]) ELSE None

\* variant of decompose_simple_query that annotates the last metric
decompose_simple_query_last_metric(q, cs, ys, ms) ==
    << SubQuery(q, SIMPLE_DIRECT, FirstOrNone(cs), FirstOrNone(ys),
                LastOrNone(ms)) >>

decompose_simple_query(q, cs, ys, ms) ==
    << SubQuery(q, SIMPLE_DIRECT, FirstOrNone(cs), FirstOrNone(ys),
                FirstOrNone(ms)) >>

\* Python: min(ys), max(ys)
Min(ys) == CHOOSE y \in Range(ys) : \A z \in Range(ys) : y <= z
Max(ys) == CHOOSE y \in Range(ys) : \A z \in Range(ys) : y >= z

\* variant of decompose_comparative_query that puts the calculation
\* instruction before the per-year sub-queries
decompose_comparative_query_calculation_first(q, cs, ys, ms) ==
    IF Len(cs) = 1 /\ Len(ys) > 1 /\ Len(ms) >= 1
    THEN LET company == cs[1]
             metric  == ms[1]
             per_year ==
                 [k \in 1..Len(ys) |->
                     SubQuery(company \o " " \o metric \o " " \o IntToStr(ys[k]),
                              SIMPLE_DIRECT, Some(company), Some(ys[k]),
                              Some(metric))]
         IN  IF Len(ys) = 2
             THEN << SubQuery("Calculate growth from " \o IntToStr(Min(ys))
                                  \o " to " \o IntToStr(Max(ys)),
                              CALCULATION, Some(company), None, Some(metric)) >>
                  \o per_year
             ELSE per_year
    ELSE << >>

decompose_comparative_query(q, cs, ys, ms) ==
    IF Len(cs) = 1 /\ Len(ys) > 1 /\ Len(ms) >= 1
    THEN LET company == cs[1]
             metric  == ms[1]
             per_year ==
                 [k \in 1..Len(ys) |->
                     SubQuery(company \o " " \o metric \o " " \o IntToStr(ys[k]),
                              SIMPLE_DIRECT, Some(company), Some(ys[k]),
                              Some(metric))]
         IN  IF Len(ys) = 2
             THEN Append(per_year,
                      SubQuery("Calculate growth from " \o IntToStr(Min(ys))
                                   \o " to " \o IntToStr(Max(ys)),
                               CALCULATION, Some(company), None, Some(metric)))
             ELSE per_year
    ELSE << >>

\* variant of decompose_cross_company_query without the roster default
decompose_cross_company_query_no_default(q, cs, ys, ms) ==
    LET year   == FirstOrNone(ys)
        metric == FirstOrNone(ms)
        per_company ==
            [k \in 1..Len(cs) |->
                SubQuery(IF metric # None /\ year # None
                         THEN cs[k] \o " " \o metric[1] \o " "
                                  \o IntToStr(year[1])
                         ELSE cs[k] \o " " \o q,
                         SIMPLE_DIRECT, Some(cs[k]), year, metric)]
    IN  Append(per_company,
            SubQuery(IF metric # None
                     THEN "Compare " \o metric[1] \o " across companies"
                     ELSE "Compare across companies",
                     CALCULATION, None, None, metric))

decompose_cross_company_query(q, cs, ys, ms) ==
    LET year   == FirstOrNone(ys)
        metric == FirstOrNone(ms)
        target_companies == IF Len(cs) > 0 THEN cs ELSE Roster
        per_company ==
            [k \in 1..Len(target_companies) |->
                SubQuery(IF metric # None /\ year # None
                         THEN target_companies[k] \o " " \o metric[1] \o " "
                                  \o IntToStr(year[1])
                         ELSE target_companies[k] \o " " \o q,
                         SIMPLE_DIRECT, Some(target_companies[k]), year,
                         metric)]
    IN  Append(per_company,
            SubQuery(IF metric # None
                     THEN "Compare " \o metric[1] \o " across companies"
                     ELSE "Compare across companies",
                     CALCULATION, None, None, metric))

\* the sub-queries of the branch decompose_query takes for query_type
dispatch_sub_queries(query_type, q, cs, ys, ms) ==
    IF query_type = SIMPLE_DIRECT
    THEN decompose_simple_query(q, cs, ys, ms)
    ELSE IF query_type = COMPARATIVE
    THEN decompose_comparative_query(q, cs, ys, ms)
    ELSE IF query_type = CROSS_COMPANY
    THEN decompose_cross_company_query(q, cs, ys, ms)
    ELSE decompose_simple_query(q, cs, ys, ms)

\* the requires_calculation flag of the branch decompose_query takes;
\* first the variant whose CALCULATION branch leaves it unset
branch_requires_calculation_calculation_unset(query_type) ==
    IF query_type = SIMPLE_DIRECT THEN FALSE
    ELSE IF query_type = COMPARATIVE THEN TRUE
    ELSE IF query_type = CROSS_COMPANY THEN TRUE
    ELSE FALSE

branch_requires_calculation(query_type) ==
    IF query_type = SIMPLE_DIRECT THEN FALSE
    ELSE IF query_type = COMPARATIVE THEN TRUE
    ELSE IF query_type = CROSS_COMPANY THEN TRUE
    ELSE TRUE

\* variant of determine_calculation_type that tests the comparison
\* keywords before the growth keywords
determine_calculation_type_comparison_first(q, requires_calculation) ==
    IF requires_calculation
    THEN LET query_lower == Lower(q)
         IN  IF ContainsAny(query_lower, comparison_keywords)
             THEN Some("comparison")
             ELSE IF ContainsAny(query_lower, growth_keywords)
             THEN Some("growth")
             ELSE Some("general")
    ELSE None

\* the calculation_type decompose_query derives from the keywords
determine_calculation_type(q, requires_calculation) ==
    IF requires_calculation
    THEN LET query_lower == Lower(q)
         IN  IF ContainsAny(query_lower, growth_keywords) THEN Some("growth")
             ELSE IF ContainsAny(query_lower, comparison_keywords)
             THEN Some("comparison")
             ELSE Some("general")
    ELSE None

\* decompose_query after the three extractions (cs, ys, ms)
decompose_query(q, cs, ys, ms) ==
    LET query_type == classify_query_type(q, cs, ys)
        requires_calculation == branch_requires_calculation(query_type)
    IN  [original_query       |-> q,
         query_type           |-> query_type,
         sub_queries          |-> dispatch_sub_queries(query_type, q, cs, ys, ms),
         requires_calculation |-> requires_calculation,
         calculation_type     |->
             determine_calculation_type(q, requires_calculation)]

---------------------------------------------------------------------------
(* The queries the model submits: up to MaxWords phrases of Vocabulary,    *)
(* in the order of Vocabulary, separated by single spaces.                 *)

Vocabulary ==
    << "Which company had the highest", "Compare", "Calculate", "growth of",
       "Google", "Alphabet", "Microsoft's", "total revenue",
       "operating margin", "since 2019", "in 2022", "2023", "to 2024?" >>

RECURSIVE JoinWords(_, _)
JoinWords(S, k) ==
    IF k > Len(Vocabulary) THEN ""
    ELSE IF k \in S
         THEN LET rest == JoinWords(S, k + 1)
              IN  IF rest = "" THEN Vocabulary[k]
                  ELSE Vocabulary[k] \o " " \o rest
         ELSE JoinWords(S, k + 1)

Queries ==
    { JoinWords(S, 1) :
        S \in { T \in SUBSET (1..Len(Vocabulary)) : Cardinality(T) <= MaxWords } }

---------------------------------------------------------------------------
(* vector_store.py: the search capability *)

\* the points of the collection (payload fields read by the pipeline)
Corpus ==
    { [chunk_id |-> "g23", content |-> "Revenues were $307.4 billion",
       company |-> "GOOGL", year |-> 2023, section |-> Some("Item 7")],
      [chunk_id |-> "m23", content |-> "Revenue was $211.9 billion",
       company |-> "MSFT", year |-> 2023, section |-> None],
      [chunk_id |-> "m24", content |-> "Revenue was $245.1 billion",
       company |-> "MSFT", year |-> 2024, section |-> Some("Item 8")],
      [chunk_id |-> "n22", content |-> "Data Center revenue 15,005 million",
       company |-> "NVDA", year |-> 2022, section |-> None] }

\* relevance scores, in thousandths
Scores == {200, 900}

\* default top_k of retrieve_for_sub_query
TopK == 5

\* the conjunctive filter similarity_search builds from the set filters
MatchesFilter(point, company_filter, year_filter, section_filter) ==
    /\ company_filter # None => point.company = company_filter[1]
    /\ year_filter # None    => point.year = year_filter[1]
    /\ section_filter # None => point.section = section_filter

ScoredPoint(point, score) ==
    [score |-> score, chunk_id |-> point.chunk_id, content |-> point.content,
     company |-> point.company, year |-> point.year, section |-> point.section]

\* what client.search may return: at most limit distinct matching points,
\* best score first
ClientSearch(limit, company_filter, year_filter, section_filter) ==
    LET matching ==
            { p \in Corpus :
                MatchesFilter(p, company_filter, year_filter, section_filter) }
        hits == { ScoredPoint(p, sc) : p \in matching, sc \in Scores }
        n_max == IF limit < MaxHits THEN limit ELSE MaxHits
    IN  UNION { { r \in [1..n -> hits] :
                    /\ \A i, j \in 1..n : i < j =>
                          /\ r[i].chunk_id # r[j].chunk_id
                          /\ r[i].score >= r[j].score }
                : n \in 0..n_max }

\* similarity_search: the formatted results, or [] when the embedding or the
\* client raised (the except branch prints and returns [])
similarity_search(top_k, company_filter, year_filter, section_filter) ==
    { [raised |-> FALSE, results |-> r] :
        r \in ClientSearch(top_k, company_filter, year_filter, section_filter) }
    \cup { [raised |-> TRUE, results |-> << >>] }

---------------------------------------------------------------------------
(* multi_step_retriever.py *)

RetrievalResult(sub_query, search_results) ==
    [sub_query        |-> sub_query,
     retrieved_chunks |-> search_results,
     relevance_scores |-> [k \in 1..Len(search_results) |->
                              search_results[k].score]]

\* variant of retrieve_for_sub_query that searches a second time when the
\* first search raised or found nothing
retrieve_for_sub_query_retry(sub_query) ==
    LET Search == similarity_search(TopK, sub_query.company, sub_query.year,
                                    sub_query.section_hint)
        Call(out) == [sub_query |-> sub_query, raised |-> out.raised]
    IN  { [calls  |-> <<Call(out)>>,
           result |-> RetrievalResult(sub_query, out.results)] :
            out \in { o \in Search : o.results # << >> } }
        \cup { [calls  |-> <<Call(first), Call(out)>>,
                result |-> RetrievalResult(sub_query, out.results)] :
                 first \in { o \in Search : o.results = << >> },
                 out \in Search }

\* the outcomes of retrieve_for_sub_query: the calls of similarity_search it
\* made (one) and its result
retrieve_for_sub_query(sub_query) ==
    { [calls  |-> << [sub_query |-> sub_query, raised |-> out.raised] >>,
       result |-> RetrievalResult(sub_query, out.results)] :
        out \in similarity_search(TopK, sub_query.company, sub_query.year,
                                  sub_query.section_hint) }

\* variant of skips_retrieval that tests for a type no sub-query ever has
skips_retrieval_wrong_type(sub_query) == sub_query.query_type = COMPARATIVE

\* retrieve_multi_step: a CALCULATION sub-query is skipped (continue)
skips_retrieval(sub_query) == sub_query.query_type = CALCULATION

\* variant of append_result that drops a result without chunks
append_result_nonempty(results, result) ==
    IF result.retrieved_chunks = << >> THEN results
    ELSE Append(results, result)

\* retrieve_multi_step: retrieval_results.append(result)
append_result(results, result) == Append(results, result)

\* the chunks of all results in order, each tagged with its sub-query text
RECURSIVE FlattenChunks(_)
FlattenChunks(results) ==
    IF results = << >> THEN << >>
    ELSE LET r == Head(results)
         IN  [k \in 1..Len(r.retrieved_chunks) |->
                 [chunk |-> r.retrieved_chunks[k],
                  sub_query |-> r.sub_query.text]]
             \o FlattenChunks(Tail(results))

\* variant of Deduplicate that keeps the last occurrence of a chunk_id
RECURSIVE Deduplicate_last_occurrence(_, _)
Deduplicate_last_occurrence(chunks, seen_chunk_ids) ==
    IF chunks = << >> THEN << >>
    ELSE LET c == Head(chunks)
             later == { Tail(chunks)[k].chunk.chunk_id :
                          k \in 1..Len(Tail(chunks)) }
         IN  IF c.chunk.chunk_id \in later
             THEN Deduplicate_last_occurrence(Tail(chunks), seen_chunk_ids)
             ELSE <<c>> \o Deduplicate_last_occurrence(Tail(chunks),
                                                       seen_chunk_ids)

\* first occurrence of every chunk_id, in order
RECURSIVE Deduplicate(_, _)
Deduplicate(chunks, seen_chunk_ids) ==
    IF chunks = << >> THEN << >>
    ELSE LET c == Head(chunks)
         IN  IF c.chunk.chunk_id \in seen_chunk_ids
             THEN Deduplicate(Tail(chunks), seen_chunk_ids)
             ELSE <<c>> \o Deduplicate(Tail(chunks),
                                       seen_chunk_ids \cup {c.chunk.chunk_id})

\* variant of InsertByScore that puts a chunk before those of equal score
RECURSIVE InsertByScore_before_ties(_, _)
InsertByScore_before_ties(sorted, c) ==
    IF sorted = << >> THEN <<c>>
    ELSE IF Head(sorted).chunk.score > c.chunk.score
         THEN <<Head(sorted)>> \o InsertByScore_before_ties(Tail(sorted), c)
         ELSE <<c>> \o sorted

\* list.sort(key=score, reverse=True): stable, equal scores keep their order
RECURSIVE InsertByScore(_, _)
InsertByScore(sorted, c) ==
    IF sorted = << >> THEN <<c>>
    ELSE IF Head(sorted).chunk.score >= c.chunk.score
         THEN <<Head(sorted)>> \o InsertByScore(Tail(sorted), c)
         ELSE <<c>> \o sorted

\* variant of SortByScore that leaves the chunks in the order they came
SortByScore_unsorted(chunks, sorted) == sorted \o chunks

RECURSIVE SortByScore(_, _)
SortByScore(chunks, sorted) ==
    IF chunks = << >> THEN sorted
    ELSE SortByScore(Tail(chunks), InsertByScore(sorted, Head(chunks)))

\* the limit of the rendered context
ContextLimit == 10

\* synthesize_context up to the sort: all_chunks without repeated chunk_id,
\* best score first
DeduplicateAndRank(chunks) == SortByScore(Deduplicate(chunks, {}), << >>)

\* variant of synthesize_context that cuts the list before it is sorted
synthesize_context_cut_before_sort(results, decomposed_query) ==
    LET deduplicated == Deduplicate(FlattenChunks(results), {})
        n == IF Len(deduplicated) < ContextLimit THEN Len(deduplicated)
             ELSE ContextLimit
    IN  [query      |-> decomposed_query.original_query,
         query_type |-> decomposed_query.query_type,
         entries    |-> SortByScore(SubSeq(deduplicated, 1, n), << >>)]

\* synthesize_context: header and the entries of all_chunks[:10]
synthesize_context(results, decomposed_query) ==
    LET all_chunks == DeduplicateAndRank(FlattenChunks(results))
        n == IF Len(all_chunks) < ContextLimit THEN Len(all_chunks)
             ELSE ContextLimit
    IN  [query      |-> decomposed_query.original_query,
         query_type |-> decomposed_query.query_type,
         entries    |-> SubSeq(all_chunks, 1, n)]

\* _extract_numbers_from_text: the pattern
\* \$?(\d{1,3}(?:,\d{3})*(?:\.\d+)?)\s*(billion|million|thousand|B|M|K)?

\* Python: s[i] for the 1-based position i, "" outside the string
CharAt(s, i) == IF i >= 1 /\ i <= Len(s) THEN SubSeq(s, i, i) ELSE ""

\* regex \s on the characters the texts are made of
IsSpace(c) == c \in {" ", "\t", "\n"}

\* the first position from i on that holds no digit
RECURSIVE DigitsEnd(_, _)
DigitsEnd(text, i) ==
    IF IsDigit(CharAt(text, i)) THEN DigitsEnd(text, i + 1) ELSE i

\* the first position from i on that holds no white space: \s*
RECURSIVE SpacesEnd(_, _)
SpacesEnd(text, i) ==
    IF IsSpace(CharAt(text, i)) THEN SpacesEnd(text, i + 1) ELSE i

\* (?:,\d{3})* from position i, greedy
RECURSIVE GroupsEnd(_, _)
GroupsEnd(text, i) ==
    IF /\ CharAt(text, i) = ","
       /\ IsDigit(CharAt(text, i + 1))
       /\ IsDigit(CharAt(text, i + 2))
       /\ IsDigit(CharAt(text, i + 3))
    THEN GroupsEnd(text, i + 4)
    ELSE i

\* (?:\.\d+)? from position i
FractionEnd(text, i) ==
    IF CharAt(text, i) = "." /\ IsDigit(CharAt(text, i + 1))
    THEN DigitsEnd(text, i + 1)
    ELSE i

\* (billion|million|thousand|B|M|K) in the order of the pattern; the flag
\* re.IGNORECASE compares the lower-cased text
unit_alternatives == <<"billion", "million", "thousand", "b", "m", "k">>

\* length of the first alternative found at position i, 0 when there is none
UnitLength(text, i) ==
    LET hits == { k \in 1..Len(unit_alternatives) :
                    /\ i + Len(unit_alternatives[k]) - 1 <= Len(text)
                    /\ Lower(SubSeq(text, i,
                                    i + Len(unit_alternatives[k]) - 1))
                           = unit_alternatives[k] }
    IN  IF hits = {} THEN 0
        ELSE Len(unit_alternatives[CHOOSE k \in hits :
                                       \A j \in hits : k <= j])

\* the match of the pattern that starts at position i, or None; every part
\* after \d{1,3} is optional, so the greedy choices are never taken back
NumberMatchAt(text, i) ==
    LET first == IF CharAt(text, i) = "$" THEN i + 1 ELSE i
    IN  IF ~IsDigit(CharAt(text, first)) THEN None
        ELSE LET d  == DigitsEnd(text, first)
                 e1 == IF d > first + 3 THEN first + 3 ELSE d
                 e2 == GroupsEnd(text, e1)
                 e3 == FractionEnd(text, e2)
                 w  == SpacesEnd(text, e3)
                 u  == UnitLength(text, w)
             IN  Some([start  |-> i,
                       group1 |-> SubSeq(text, first, e3 - 1),
                       unit   |-> IF u = 0 THEN None
                                  ELSE Some(SubSeq(text, w, w + u - 1)),
                       stop   |-> w + u])

\* Python: s.replace(',', '')
RECURSIVE RemoveCommas(_)
RemoveCommas(s) ==
    IF s = "" THEN ""
    ELSE IF SubSeq(s, 1, 1) = "," THEN RemoveCommas(SubSeq(s, 2, Len(s)))
         ELSE SubSeq(s, 1, 1) \o RemoveCommas(SubSeq(s, 2, Len(s)))

RECURSIVE Zeros(_)
Zeros(n) == IF n <= 0 THEN "" ELSE "0" \o Zeros(n - 1)

RECURSIVE StripLeadingZeros(_)
StripLeadingZeros(s) ==
    IF s = "" THEN "0"
    ELSE IF SubSeq(s, 1, 1) = "0" /\ Len(s) > 1
         THEN StripLeadingZeros(SubSeq(s, 2, Len(s)))
         ELSE s

RECURSIVE StripTrailingZeros(_)
StripTrailingZeros(s) ==
    IF s = "" THEN ""
    ELSE IF SubSeq(s, Len(s), Len(s)) = "0"
         THEN StripTrailingZeros(SubSeq(s, 1, Len(s) - 1))
         ELSE s

\* the position of the decimal point of a numeral, 0 when it has none
PointAt(s) ==
    LET at == { i \in 1..Len(s) : SubSeq(s, i, i) = "." }
    IN  IF at = {} THEN 0 ELSE CHOOSE i \in at : TRUE

\* float(value_str) * 10^k as a decimal numeral: the point moves k places
\* to the right (the rounding of the binary floating-point product is not
\* modelled)
TimesPowerOfTen(value_str, k) ==
    LET p         == PointAt(value_str)
        int_part  == IF p = 0 THEN value_str ELSE SubSeq(value_str, 1, p - 1)
        frac_part == IF p = 0 THEN ""
                     ELSE SubSeq(value_str, p + 1, Len(value_str))
        f         == Len(frac_part)
        digits    == int_part \o frac_part \o Zeros(k - f)
        n_int     == IF k >= f THEN Len(digits) ELSE Len(int_part) + k
        whole     == StripLeadingZeros(SubSeq(digits, 1, n_int))
        rest      == StripTrailingZeros(SubSeq(digits, n_int + 1, Len(digits)))
    IN  IF rest = "" THEN whole ELSE whole \o "." \o rest

\* variant of unit_exponent that compares the unit as it is written
unit_exponent_case_sensitive(unit) ==
    IF unit = None THEN 0
    ELSE IF unit[1] \in {"billion", "b"} THEN 9
         ELSE IF unit[1] \in {"million", "m"} THEN 6
         ELSE IF unit[1] \in {"thousand", "k"} THEN 3
         ELSE 0

\* the factor 1_000_000_000, 1_000_000 or 1_000 chosen by unit.lower(), as
\* its power of ten; 0 when there is no unit
unit_exponent(unit) ==
    IF unit = None THEN 0
    ELSE LET unit_lower == Lower(unit[1])
         IN  IF unit_lower \in {"billion", "b"} THEN 9
             ELSE IF unit_lower \in {"million", "m"} THEN 6
             ELSE IF unit_lower \in {"thousand", "k"} THEN 3
             ELSE 0

\* Python: s.strip()
RECURSIVE Strip(_)
Strip(s) ==
    IF s = "" THEN ""
    ELSE IF IsSpace(SubSeq(s, 1, 1)) THEN Strip(SubSeq(s, 2, Len(s)))
    ELSE IF IsSpace(SubSeq(s, Len(s), Len(s)))
         THEN Strip(SubSeq(s, 1, Len(s) - 1))
         ELSE s

\* characters of context kept on either side of a match
ContextRadius == 50

\* the dict appended for one match
NumberRecord(text, m) ==
    LET from == IF m.start - ContextRadius < 1 THEN 1
                ELSE m.start - ContextRadius
        to   == IF m.stop - 1 + ContextRadius > Len(text) THEN Len(text)
                ELSE m.stop - 1 + ContextRadius
    IN  [value         |-> TimesPowerOfTen(RemoveCommas(m.group1),
                                           unit_exponent(m.unit)),
         original_text |-> SubSeq(text, m.start, m.stop - 1),
         context       |-> Strip(SubSeq(text, from, to)),
         unit          |-> m.unit]

\* re.finditer: the matches from left to right, none overlapping
RECURSIVE NumbersFrom(_, _)
NumbersFrom(text, i) ==
    IF i > Len(text) THEN << >>
    ELSE LET m == NumberMatchAt(text, i)
         IN  IF m = None THEN NumbersFrom(text, i + 1)
             ELSE <<NumberRecord(text, m[1])>> \o NumbersFrom(text, m[1].stop)

\* _extract_numbers_from_text (its metric argument is not used)
extract_numbers_from_text(text) == NumbersFrom(text, 1)

\* calculation_data[key]["metrics"][metric].extend(numbers), the list
\* created when the metric has none yet; nothing happens without numbers
ExtendMetric(group_metrics, metric, numbers) ==
    IF numbers = << >> THEN group_metrics
    ELSE LET at == { k \in 1..Len(group_metrics) :
                       group_metrics[k].metric = metric }
         IN  IF at = {}
             THEN Append(group_metrics,
                         [metric |-> metric, numbers |-> numbers])
             ELSE LET k == CHOOSE k \in at : TRUE
                  IN  [group_metrics EXCEPT ![k].numbers = @ \o numbers]

\* the inner loop of extract_financial_data over the chunks of one result
RECURSIVE ScanChunks(_, _, _)
ScanChunks(chunks, metric, group_metrics) ==
    IF chunks = << >> THEN group_metrics
    ELSE ScanChunks(Tail(chunks), metric,
             ExtendMetric(group_metrics, metric,
                 extract_numbers_from_text(Head(chunks).content)))

\* extract_financial_data: the groups keyed "{company}_{year}", in insertion
\* order, each with the chunks of the results whose sub-query has both set
\* and with the numbers found in them, listed per metric
RECURSIVE GroupResults(_, _)
GroupResults(results, groups) ==
    IF results = << >> THEN groups
    ELSE LET r  == Head(results)
             sq == r.sub_query
         IN  IF sq.company # None /\ sq.year # None
             THEN LET key == sq.company[1] \o "_" \o IntToStr(sq.year[1])
                      at  == { k \in 1..Len(groups) : groups[k].key = key }
                      with_key ==
                          IF at = {}
                          THEN Append(groups,
                                   [key |-> key, company |-> sq.company[1],
                                    year |-> sq.year[1], chunks |-> << >>,
                                    metrics |-> << >>])
                          ELSE groups
                      k == CHOOSE k \in 1..Len(with_key) :
                               with_key[k].key = key
                  IN  GroupResults(Tail(results),
                          [with_key EXCEPT
                              ![k].chunks = @ \o r.retrieved_chunks,
                              ![k].metrics =
                                  ScanChunks(r.retrieved_chunks, sq.metric,
                                             @)])
             ELSE GroupResults(Tail(results), groups)

extract_financial_data(results, decomposed_query) ==
    IF ~decomposed_query.requires_calculation THEN << >>
    ELSE GroupResults(results, << >>)

---------------------------------------------------------------------------
(* rag_assistant.py: the assistant and its single thread of control *)

\* the chunk lists the chunker may hand over (chunk ids)
DocumentChunkLists == { << >>, <<"g23", "m23", "m24", "n22">> }

\* the text answer_query returns before setup (after its cross-mark prefix)
NotInitializedMessage == "System not initialized. Please run setup first."

\* texts of the generation capability: a completion, or an exception message
Completions == {"The answer is in the filings."}
GenerationErrors == {"Request timed out."}

\* no call is in progress: main.py and demo.py await each call in turn
Quiescent == pc = "idle"

pipeline_vars ==
    << query, companies, years, metrics, decomposed, idx, retrieval_results,
       search_log, calculation_data, synthesized_context, generate_calls,
       answer >>

Init ==
    /\ is_initialized = FALSE
    /\ document_chunks = << >>
    /\ collection = None
    /\ pc = "idle"
    /\ query = ""
    /\ companies = << >>
    /\ years = << >>
    /\ metrics = << >>
    /\ decomposed = None
    /\ idx = 0
    /\ retrieval_results = << >>
    /\ search_log = << >>
    /\ calculation_data = None
    /\ synthesized_context = None
    /\ generate_calls = 0
    /\ answer = None
    /\ last_return = None

\* extract_and_process_filings: on success the chunker's output replaces
\* document_chunks; a failed download or an exception leaves it as it was
extract_and_process_filings ==
    /\ Quiescent
    /\ \/ /\ \E chunks \in DocumentChunkLists : document_chunks' = chunks
          /\ last_return' = Some([op |-> "extract_and_process_filings",
                                  value |-> TRUE])
       \/ /\ UNCHANGED document_chunks
          /\ last_return' = Some([op |-> "extract_and_process_filings",
                                  value |-> FALSE])
    /\ pc' = "idle"
    /\ UNCHANGED << is_initialized, collection, pipeline_vars >>

\* the points the model lets the collection hold
MaxPoints == 8

\* vector_store.py, create_collection: an existing collection is kept
create_collection(c) == IF c = None THEN Some(<< >>) ELSE c

\* vector_store.py, store_chunks: what it returns and the collection it
\* leaves. Every chunk becomes a new point (its id is a fresh uuid4, its
\* payload names the chunk_id); when the embeddings or the upsert raise,
\* nothing is stored.
store_chunks(c, chunks) ==
    IF chunks = << >>
    THEN { [success |-> TRUE, collection |-> c] }
    ELSE { [success |-> FALSE, collection |-> c] }
         \cup IF c # None /\ Len(c[1]) + Len(chunks) <= MaxPoints
              THEN { [success |-> TRUE, collection |-> Some(c[1] \o chunks)] }
              ELSE { }

\* vector_store.py, delete_collection: the collection is gone, or the
\* client raised and it is left as it was
delete_collection(c) == { None, c }

\* variant of setup_vector_database_outcomes that stores whatever
\* document_chunks holds
setup_vector_database_outcomes_no_chunk_check(chunks, initialized, c) ==
    UNION { { [value          |-> s.success,
               is_initialized |-> (initialized \/ s.success),
               collection     |-> s.collection] :
                s \in store_chunks(c1, chunks) } :
            c1 \in { create_collection(c), c } }

\* setup_vector_database for document_chunks = chunks: the value returned,
\* is_initialized and the collection afterwards (create_collection may
\* raise and leave the collection as it was)
setup_vector_database_outcomes(chunks, initialized, c) ==
    UNION { IF chunks # << >>
            THEN { [value          |-> s.success,
                    is_initialized |-> (initialized \/ s.success),
                    collection     |-> s.collection] :
                     s \in store_chunks(c1, chunks) }
            ELSE { [value          |-> FALSE,
                    is_initialized |-> initialized,
                    collection     |-> c1] } :
            c1 \in { create_collection(c), c } }

setup_vector_database ==
    /\ Quiescent
    /\ \E out \in setup_vector_database_outcomes(document_chunks,
                                                 is_initialized, collection) :
          /\ is_initialized' = out.is_initialized
          /\ collection' = out.collection
          /\ last_return' = Some([op |-> "setup_vector_database",
                                  value |-> out.value])
    /\ pc' = "idle"
    /\ UNCHANGED << document_chunks, pipeline_vars >>

\* load_from_processed_data: without processed files, or when reading them
\* raises, it returns False; otherwise it re-chunks the documents, calls
\* setup_vector_database and returns True whatever that call returned
load_from_processed_data ==
    /\ Quiescent
    /\ \/ /\ UNCHANGED << document_chunks, is_initialized, collection >>
          /\ last_return' = Some([op |-> "load_from_processed_data",
                                  value |-> FALSE])
       \/ \E chunks \in DocumentChunkLists :
             \E out \in setup_vector_database_outcomes(chunks, is_initialized,
                                                       collection) :
                /\ document_chunks' = chunks
                /\ is_initialized' = out.is_initialized
                /\ collection' = out.collection
                /\ last_return' = Some([op |-> "load_from_processed_data",
                                        value |-> TRUE])
    /\ pc' = "idle"
    /\ UNCHANGED pipeline_vars

\* reset_system: the collection is deleted only when is_initialized
reset_system ==
    /\ Quiescent
    /\ \E c \in (IF is_initialized THEN delete_collection(collection)
                 ELSE { collection }) :
          collection' = c
    /\ document_chunks' = << >>
    /\ is_initialized' = FALSE
    /\ last_return' = Some([op |-> "reset_system", value |-> TRUE])
    /\ pc' = "idle"
    /\ UNCHANGED pipeline_vars

\* variant of AfterRetrieve that extracts calculation data for every query
AfterRetrieve_always_extract(d) == "extract"

\* where process_query goes once retrieve_multi_step has returned
AfterRetrieve(d) == IF d.requires_calculation THEN "extract" ELSE "synthesize"

\* the loop of retrieve_multi_step continues while sub-queries remain
RetrievePc(d, i) ==
    IF i <= Len(d.sub_queries) THEN "retrieve" ELSE AfterRetrieve(d)

\* variant of new_retrieval_results that goes on with the list of the
\* call before
new_retrieval_results_kept == retrieval_results

\* retrieve_multi_step starts from a list of its own: retrieval_results = []
new_retrieval_results == << >>

\* answer_query up to the call of process_query
answer_query ==
    /\ Quiescent
    /\ \E q \in Queries :
          /\ query' = q
          /\ IF ~is_initialized
             THEN /\ answer' = Some(NotInitializedMessage)
                  /\ pc' = "done"
             ELSE /\ answer' = None
                  /\ pc' = "decompose"
    /\ companies' = << >>
    /\ years' = << >>
    /\ metrics' = << >>
    /\ decomposed' = None
    /\ idx' = 0
    /\ retrieval_results' = new_retrieval_results
    /\ search_log' = << >>
    /\ calculation_data' = None
    /\ synthesized_context' = None
    /\ generate_calls' = 0
    /\ last_return' = None
    /\ UNCHANGED << is_initialized, document_chunks, collection >>

\* decompose_query as process_query calls it: the locals companies, years
\* and metrics and the DecomposedQuery returned
Decomposition(q) ==
    LET cs == extract_companies(q)
        ys == extract_years(q)
        ms == extract_metrics(q)
    IN  [query |-> q, companies |-> cs, years |-> ys, metrics |-> ms,
         decomposed |-> decompose_query(q, cs, ys, ms)]

\* decompose_query of every query the model submits
DecompositionOf == [q \in Queries |-> Decomposition(q)]

\* process_query, step 1: decompose_query
process_query_decompose ==
    /\ pc = "decompose"
    /\ LET dec == DecompositionOf[query]
       IN  /\ companies' = dec.companies
           /\ years' = dec.years
           /\ metrics' = dec.metrics
           /\ decomposed' = Some(dec.decomposed)
           /\ idx' = 1
           /\ pc' = RetrievePc(dec.decomposed, 1)
    /\ UNCHANGED << is_initialized, document_chunks, collection, query,
                    retrieval_results, search_log, calculation_data,
                    synthesized_context, generate_calls, answer, last_return >>

\* process_query, step 2: one iteration of the loop of retrieve_multi_step
retrieve_multi_step ==
    /\ pc = "retrieve"
    /\ LET d == decomposed[1]
           sub_query == d.sub_queries[idx]
       IN  /\ \/ /\ skips_retrieval(sub_query)
                 /\ UNCHANGED << retrieval_results, search_log >>
              \/ /\ ~skips_retrieval(sub_query)
                 /\ \E out \in retrieve_for_sub_query(sub_query) :
                       /\ retrieval_results' =
                              append_result(retrieval_results, out.result)
                       /\ search_log' = search_log \o out.calls
           /\ idx' = idx + 1
           /\ pc' = RetrievePc(d, idx + 1)
    /\ UNCHANGED << is_initialized, document_chunks, collection, query, companies, years,
                    metrics, decomposed, calculation_data,
                    synthesized_context, generate_calls, answer, last_return >>

\* process_query, step 3: extract_financial_data when a calculation is needed
process_query_extract ==
    /\ pc = "extract"
    /\ calculation_data' =
           Some(extract_financial_data(retrieval_results, decomposed[1]))
    /\ pc' = "synthesize"
    /\ UNCHANGED << is_initialized, document_chunks, collection, query, companies, years,
                    metrics, decomposed, idx, retrieval_results, search_log,
                    synthesized_context, generate_calls, answer, last_return >>

\* process_query, step 4: synthesize_context
process_query_synthesize ==
    /\ pc = "synthesize"
    /\ synthesized_context' =
           Some(synthesize_context(retrieval_results, decomposed[1]))
    /\ pc' = "generate"
    /\ UNCHANGED << is_initialized, document_chunks, collection, query, companies, years,
                    metrics, decomposed, idx, retrieval_results, search_log,
                    calculation_data, generate_calls, answer, last_return >>

\* what client.chat.completions.create may do: return a completion, or raise
ChatCompletions ==
    { [raised |-> FALSE, text |-> t] : t \in Completions }
    \cup { [raised |-> TRUE, text |-> e] : e \in GenerationErrors }

\* variant of final_answer without the except branch: nothing is returned
\* when the call raised
final_answer_uncaught(call) ==
    IF call.raised THEN None ELSE Some(call.text)

\* what generate_final_answer returns: the completion, or the error string
\* of its except branch
final_answer(call) ==
    IF call.raised THEN Some("Error generating answer: " \o call.text)
    ELSE Some(call.text)

generate_final_answer ==
    /\ pc = "generate"
    /\ \E call \in ChatCompletions : answer' = final_answer(call)
    /\ generate_calls' = generate_calls + 1
    /\ pc' = "done"
    /\ UNCHANGED << is_initialized, document_chunks, collection, query, companies, years,
                    metrics, decomposed, idx, retrieval_results, search_log,
                    calculation_data, synthesized_context, last_return >>

\* answer_query returns: its locals and those of process_query are dropped
answer_query_return ==
    /\ pc = "done"
    /\ last_return' = Some([op |-> "answer_query", value |-> answer[1]])
    /\ pc' = "idle"
    /\ query' = ""
    /\ companies' = << >>
    /\ years' = << >>
    /\ metrics' = << >>
    /\ decomposed' = None
    /\ idx' = 0
    /\ retrieval_results' = new_retrieval_results
    /\ search_log' = << >>
    /\ calculation_data' = None
    /\ synthesized_context' = None
    /\ generate_calls' = 0
    /\ answer' = None
    /\ UNCHANGED << is_initialized, document_chunks, collection >>

Next ==
    \/ extract_and_process_filings
    \/ setup_vector_database
    \/ load_from_processed_data
    \/ reset_system
    \/ answer_query
    \/ process_query_decompose
    \/ retrieve_multi_step
    \/ process_query_extract
    \/ process_query_synthesize
    \/ generate_final_answer
    \/ answer_query_return

Spec == Init /\ [][Next]_vars

---------------------------------------------------------------------------
(* process_query from the point where retrieve_multi_step has returned:    *)
(* the extraction and the synthesis steps on retrieval results of any      *)
(* content                                                                 *)

\* at most this many tokens make up the content of a chunk
MaxTokens == 3

\* pieces of filing text: figures with and without unit, words, separators
NumberTokens ==
    << "$198.3 billion", "2,500 million", " ", "garbage", "123", "abc",
       "Million", "K", "$", "4567", " thousand" >>

\* the concatenations of n tokens
RECURSIVE TextsOfLength(_)
TextsOfLength(n) ==
    IF n = 0 THEN {""}
    ELSE { NumberTokens[k] \o t :
             k \in 1..Len(NumberTokens), t \in TextsOfLength(n - 1) }

Texts == UNION { TextsOfLength(n) : n \in 0..MaxTokens }

\* a query with one company, one year and one metric that needs a calculation
ExtractionQuery == "Which company had the highest Google total revenue 2023"

\* a query without company and year: one sub-query per company of the roster
SynthesisQuery == "Which company had the highest total revenue"

ExtractionDecomposition == Decomposition(ExtractionQuery)
SynthesisDecomposition  == Decomposition(SynthesisQuery)

\* the two ends of the score scale
BestScore  == CHOOSE s \in Scores : \A t \in Scores : s >= t
WorstScore == CHOOSE s \in Scores : \A t \in Scores : s <= t

\* the chunks a search for sub_query returned, as similarity_search formats
\* them: n chunks, the first high of them with the better score, their ids
\* taken from the pool of sub-query j
ChunksOfShape(sub_query, j, n, high) ==
    [k \in 1..n |->
        [score    |-> IF k <= high THEN BestScore ELSE WorstScore,
         chunk_id |-> "c" \o IntToStr(j) \o "_" \o IntToStr(k),
         content  |-> "",
         company  |-> sub_query.company[1],
         year     |-> YearLow,
         section  |-> None]]

\* the results of one search per retrievable sub-query; a later search may
\* return the chunks the first one returned, with scores of its own
SynthesisInputs ==
    LET sq == SelectSeq(SynthesisDecomposition.decomposed.sub_queries,
                        LAMBDA s : s.query_type # CALCULATION)
        Shapes == { <<n, high>> : n \in 0..TopK, high \in 0..TopK }
        Sound == { sh \in Shapes : sh[2] <= sh[1] }
    IN  { [j \in 1..Len(sq) |->
              RetrievalResult(sq[j],
                  ChunksOfShape(sq[j], IF j \in again THEN 1 ELSE j,
                                shape[j][1], shape[j][2]))] :
            shape \in [1..Len(sq) -> Sound],
            again \in SUBSET (2..Len(sq)) }

\* the result of the one search of ExtractionQuery: one chunk of any text
ExtractionInputs ==
    LET sq == ExtractionDecomposition.decomposed.sub_queries[1]
    IN  { << RetrievalResult(sq,
                << [score |-> BestScore, chunk_id |-> "c1_1",
                    content |-> t, company |-> sq.company[1],
                    year |-> sq.year[1], section |-> None] >>) >> :
            t \in Texts }

\* process_query after retrieve_multi_step returned results for the query
\* decomposed as dec
AfterRetrieval(dec, results) ==
    /\ is_initialized = TRUE
    /\ document_chunks = <<"g23", "m23", "m24", "n22">>
    /\ collection = Some(document_chunks)
    /\ query = dec.query
    /\ companies = dec.companies
    /\ years = dec.years
    /\ metrics = dec.metrics
    /\ decomposed = Some(dec.decomposed)
    /\ idx = Len(dec.decomposed.sub_queries) + 1
    /\ retrieval_results = results
    /\ search_log = [k \in 1..Len(results) |->
                        [sub_query |-> results[k].sub_query,
                         raised |-> FALSE]]
    /\ generate_calls = 0
    /\ answer = None
    /\ last_return = None

ExtractionInit ==
    /\ pc = "extract"
    /\ \E results \in ExtractionInputs :
          AfterRetrieval(ExtractionDecomposition, results)
    /\ calculation_data = None
    /\ synthesized_context = None

ExtractionSpec == ExtractionInit /\ [][process_query_extract]_vars

SynthesisInit ==
    /\ pc = "synthesize"
    /\ \E results \in SynthesisInputs :
          /\ AfterRetrieval(SynthesisDecomposition, results)
          /\ calculation_data =
                 Some(extract_financial_data(results,
                          SynthesisDecomposition.decomposed))
    /\ synthesized_context = None

SynthesisSpec == SynthesisInit /\ [][process_query_synthesize]_vars

\* answer_query has handed a query to process_query, which is about to call
\* decompose_query
DecompositionInit ==
    /\ pc = "decompose"
    /\ is_initialized = TRUE
    /\ document_chunks = <<"g23", "m23", "m24", "n22">>
    /\ collection = Some(document_chunks)
    /\ query \in Queries
    /\ companies = << >>
    /\ years = << >>
    /\ metrics = << >>
    /\ decomposed = None
    /\ idx = 0
    /\ retrieval_results = new_retrieval_results
    /\ search_log = << >>
    /\ calculation_data = None
    /\ synthesized_context = None
    /\ generate_calls = 0
    /\ answer = None
    /\ last_return = None

DecompositionSpec == DecompositionInit /\ [][process_query_decompose]_vars

---------------------------------------------------------------------------
(* Properties *)

\* the DecomposedQuery of the call in progress and its sub-queries
D == decomposed[1]
SubQueries == D.sub_queries

\* decompose_query has just returned (the retrieval loop has not advanced)
JustDecomposed == decomposed # None /\ idx = 1 /\ retrieval_results = << >>

\* the tickers whose alias occurs in the query, as a set
MentionedTickers(q) ==
    { company_mappings[k][2] :
        k \in { j \in 1..Len(company_mappings) :
                  Contains(Lower(q), company_mappings[j][1]) } }

\* the distinct years of the accepted range that occur in the query
MentionedYears(q) == Range(YearsFrom(q, 1))

IsRetrievable(sub_query) == sub_query.query_type # CALCULATION

\* C1: every DecomposedQuery returned by decompose_query holds at least one
\* sub-query.
C1_AtLeastOneSubQuery ==
    decomposed # None => Len(SubQueries) >= 1

\* C2: a query classified COMPARATIVE that has not exactly one company, or
\* no metric, is decomposed into the SIMPLE_DIRECT fallback: exactly one
\* sub-query, of type SIMPLE_DIRECT, whose text is the original query.
C2_ComparativeFallback ==
    ( /\ decomposed # None
      /\ D.query_type = COMPARATIVE
      /\ (Len(companies) # 1 \/ Len(metrics) = 0) )
    => /\ Len(SubQueries) = 1
       /\ SubQueries[1].query_type = SIMPLE_DIRECT
       /\ SubQueries[1].text = query

\* C3: similarity_search is never called for a sub-query of type CALCULATION.
C3_NoSearchForCalculation ==
    \A k \in 1..Len(search_log) :
        search_log[k].sub_query.query_type # CALCULATION

\* C3 witness: the loop has passed a CALCULATION sub-query and searches were
\* made for the others.
C3_Witness ==
    /\ pc = "extract"
    /\ \E k \in 1..Len(SubQueries) : SubQueries[k].query_type = CALCULATION
    /\ Len(search_log) >= 2

\* C4: when the search capability raised for a sub-query, the pipeline is
\* aborted: neither synthesis nor generation follows and the caller gets an
\* error message, which no search with zero chunks produces.
C4_SearchFailureAborts ==
    (\E k \in 1..Len(search_log) : search_log[k].raised)
    => /\ synthesized_context = None
       /\ generate_calls = 0
       /\ pc = "done" =>
              /\ answer # None
              /\ answer[1] \notin Completions

\* C5: a query that mentions two or more distinct tracked companies is
\* classified CROSS_COMPANY, whatever else it contains.
C5_TwoCompaniesCrossCompany ==
    (JustDecomposed /\ Cardinality(MentionedTickers(query)) >= 2)
    => D.query_type = CROSS_COMPANY

\* C5 witness: two tickers and two years (the temporal rule matches as
\* well), classified CROSS_COMPANY.
C5_Witness ==
    /\ JustDecomposed
    /\ Cardinality(MentionedTickers(query)) >= 2
    /\ Len(years) = 2
    /\ D.query_type = CROSS_COMPANY

\* C6: a query with exactly one tracked company, exactly two years of the
\* accepted range and at least one metric is decomposed into exactly three
\* sub-queries: two SIMPLE_DIRECT, one per year in ascending year order,
\* then one CALCULATION.
C6_TwoYearsThreeSubQueries ==
    ( /\ JustDecomposed
      /\ Cardinality(MentionedTickers(query)) = 1
      /\ Cardinality(MentionedYears(query)) = 2
      /\ Len(metrics) >= 1 )
    => /\ Len(SubQueries) = 3
       /\ SubQueries[1].query_type = SIMPLE_DIRECT
       /\ SubQueries[2].query_type = SIMPLE_DIRECT
       /\ SubQueries[3].query_type = CALCULATION
       /\ { SubQueries[1].year, SubQueries[2].year }
              = { Some(y) : y \in MentionedYears(query) }
       /\ SubQueries[1].year[1] < SubQueries[2].year[1]

\* C7: a CROSS_COMPANY query is decomposed into one SIMPLE_DIRECT sub-query
\* per target company (the extracted companies in extraction order, or
\* GOOGL, MSFT, NVDA when none is named), each tagged with that company and
\* the first extracted metric and year, then exactly one CALCULATION
\* sub-query, and requires_calculation is true.
C7_CrossCompanyDecomposition ==
    (decomposed # None /\ D.query_type = CROSS_COMPANY)
    => LET targets == IF Len(companies) > 0 THEN companies
                      ELSE <<"GOOGL", "MSFT", "NVDA">>
           n == Len(targets)
       IN  /\ Len(SubQueries) = n + 1
           /\ \A k \in 1..n :
                 /\ SubQueries[k].query_type = SIMPLE_DIRECT
                 /\ SubQueries[k].company = Some(targets[k])
                 /\ SubQueries[k].metric = FirstOrNone(metrics)
                 /\ SubQueries[k].year = FirstOrNone(years)
           /\ SubQueries[n + 1].query_type = CALCULATION
           /\ D.requires_calculation

\* C7 witness: no company named, so the roster is used, with a metric and a
\* year.
C7_Witness ==
    /\ decomposed # None
    /\ D.query_type = CROSS_COMPANY
    /\ companies = << >>
    /\ Len(SubQueries) = 4
    /\ SubQueries[1].text = "GOOGL operating_margin 2023"
    /\ SubQueries[3].company = Some("NVDA")
    /\ SubQueries[4].text = "Compare operating_margin across companies"

\* C8: a SIMPLE_DIRECT query is decomposed into exactly one SIMPLE_DIRECT
\* sub-query whose text is the original query and whose company, year and
\* metric are the first extracted values (unset when none), with
\* requires_calculation false and calculation_type unset.
C8_SimpleDirectDecomposition ==
    (decomposed # None /\ D.query_type = SIMPLE_DIRECT)
    => /\ Len(SubQueries) = 1
       /\ SubQueries[1].query_type = SIMPLE_DIRECT
       /\ SubQueries[1].text = query
       /\ SubQueries[1].company = FirstOrNone(companies)
       /\ SubQueries[1].year = FirstOrNone(years)
       /\ SubQueries[1].metric = FirstOrNone(metrics)
       /\ ~D.requires_calculation
       /\ D.calculation_type = None

\* C8 witness: a simple query with a company, a year and two metrics.
C8_Witness ==
    /\ decomposed # None
    /\ D.query_type = SIMPLE_DIRECT
    /\ SubQueries[1].company = Some("MSFT")
    /\ SubQueries[1].year = Some(2023)
    /\ SubQueries[1].metric = Some("revenue")
    /\ Len(metrics) = 2
    /\ D.original_query = "Microsoft's total revenue operating margin 2023"

\* the three rules of classify_query_type, as the query satisfies them
CrossCompanyRule ==
    Len(companies) > 1 \/ ContainsAny(Lower(query), comparison_keywords)
TemporalRule ==
    Len(years) > 1 \/ ContainsAny(Lower(query), temporal_keywords)
CalculationRule == ContainsAny(Lower(query), calculation_keywords)

C10_OneResultPerSubQueryInOrder ==
    decomposed # None
    => [k \in 1..Len(retrieval_results) |-> retrieval_results[k].sub_query]
           = SelectSeq(SubSeq(SubQueries, 1, idx - 1), IsRetrievable)

\* C10 witness: retrieval is over, the first search returned no chunk and a
\* later one returned some.
C10_Witness ==
    /\ pc = "extract"
    /\ Len(retrieval_results) = 3
    /\ retrieval_results[1].retrieved_chunks = << >>
    /\ retrieval_results[2].retrieved_chunks # << >>
    /\ ~search_log[1].raised

\* the entries of the context synthesized in the current call, and the
\* chunks handed to the synthesizer in the order its loops visit them
Entries == synthesized_context[1].entries
RetrievedChunks == FlattenChunks(retrieval_results)

\* C11: deduplication and ranking are idempotent: applied to its own output
\* the deduplicate-then-rank step returns that output unchanged, and
\* synthesizing the same retrieval results again yields the same context.
C11_DeduplicateAndRankIdempotent ==
    synthesized_context # None
    => LET ranked == DeduplicateAndRank(RetrievedChunks)
       IN  /\ DeduplicateAndRank(ranked) = ranked
           /\ DeduplicateAndRank(Entries) = Entries
           /\ synthesize_context(retrieval_results, D)
                  = synthesized_context[1]

\* C11 witness: a context was synthesized from results that repeat a chunk
\* and hold chunks of equal score.
C11_Witness ==
    /\ synthesized_context # None
    /\ Len(Entries) >= 3
    /\ Len(Entries) < Len(RetrievedChunks)
    /\ \E i, j \in 1..Len(Entries) :
          i < j /\ Entries[i].chunk.score = Entries[j].chunk.score

\* C12: the entries of the synthesized context are in non-increasing order
\* of relevance score, however the chunks are spread over the sub-queries.
C12_EntriesByDescendingScore ==
    synthesized_context # None
    => \A i, j \in 1..Len(Entries) :
          i < j => Entries[i].chunk.score >= Entries[j].chunk.score

\* C12 witness: the chunks came from several sub-queries in an order that
\* was not descending, and the context lists them.
C12_Witness ==
    /\ synthesized_context # None
    /\ Len(Entries) >= 3
    /\ \E i, j \in 1..Len(Entries) :
          Entries[i].sub_query # Entries[j].sub_query
    /\ \E i, j \in 1..Len(RetrievedChunks) :
          /\ i < j
          /\ RetrievedChunks[i].chunk.score < RetrievedChunks[j].chunk.score

\* C13: the synthesized context has at most 10 entries, and when more than
\* 10 distinct chunks were retrieved it has exactly 10 and no chunk left out
\* has a better score than an entry.
C13_AtMostTenBestEntries ==
    synthesized_context # None
    => LET distinct == Deduplicate(RetrievedChunks, {})
       IN  /\ Len(Entries) <= 10
           /\ Len(distinct) > 10
              => /\ Len(Entries) = 10
                 /\ \A c \in Range(distinct) :
                       c \notin Range(Entries)
                       => \A e \in Range(Entries) :
                             e.chunk.score >= c.chunk.score

\* C13 witness: more than 10 distinct chunks were retrieved, the context
\* has 10 entries and one of them was retrieved after the tenth chunk.
C13_Witness ==
    /\ synthesized_context # None
    /\ Len(Entries) = 10
    /\ LET distinct == Deduplicate(RetrievedChunks, {})
       IN  /\ Len(distinct) > 10
           /\ \E k \in 11..Len(distinct) : distinct[k] \in Range(Entries)

\* the groups of calculation_data and the numbers recorded in them
Groups == calculation_data[1]
ExtractedNumbers ==
    UNION { UNION { Range(g.metrics[k].numbers) : k \in 1..Len(g.metrics) } :
              g \in Range(Groups) }

\* the numeral of a recorded match: its text from after a leading "$" to
\* its last digit, commas removed, written without redundant zeros
NumeralOf(original_text) ==
    LET from == IF CharAt(original_text, 1) = "$" THEN 2 ELSE 1
        digit_at == { i \in 1..Len(original_text) :
                        IsDigit(CharAt(original_text, i)) }
        to == CHOOSE i \in digit_at : \A j \in digit_at : j <= i
    IN  TimesPowerOfTen(RemoveCommas(SubSeq(original_text, from, to)), 0)

\* the scale of a unit as the claim states it, as a power of ten
ClaimedExponent(unit) ==
    IF unit = None THEN 0
    ELSE CASE Lower(unit[1]) \in {"billion", "b"}  -> 9
           [] Lower(unit[1]) \in {"million", "m"}  -> 6
           [] Lower(unit[1]) \in {"thousand", "k"} -> 3

\* a decimal numeral divided by 10^k: the point moves k places to the left
DividedByPowerOfTen(value, k) ==
    LET p         == PointAt(value)
        int_part  == IF p = 0 THEN value ELSE SubSeq(value, 1, p - 1)
        frac_part == IF p = 0 THEN "" ELSE SubSeq(value, p + 1, Len(value))
        padded    == Zeros(k) \o int_part
        n_int     == Len(padded) - k
    IN  TimesPowerOfTen(SubSeq(padded, 1, n_int) \o "."
                            \o SubSeq(padded, n_int + 1, Len(padded))
                            \o frac_part \o "0", 0)

\* C14: every recorded number has as value its numeral (commas removed)
\* times the scale of its unit, whatever the case of the unit: billion or B
\* 10^9, million or M 10^6, thousand or K 10^3, no unit 1; "$198.3 billion"
\* gives 198300000000 with unit "billion" and "2,500 million" gives
\* 2500000000.
C14_ValueIsNumeralTimesScale ==
    calculation_data # None
    => \A n \in ExtractedNumbers :
          /\ DividedByPowerOfTen(n.value, ClaimedExponent(n.unit))
                 = NumeralOf(n.original_text)
          /\ n.original_text = "$198.3 billion"
                 => n.value = "198300000000" /\ n.unit = Some("billion")
          /\ n.original_text = "2,500 million"
                 => n.value = "2500000000" /\ n.unit = Some("million")

\* C14 witness: both figures of the claim were recorded from one text, with
\* the values the claim gives.
C14_Witness ==
    /\ calculation_data # None
    /\ \E n \in ExtractedNumbers :
          /\ n.original_text = "$198.3 billion"
          /\ n.value = "198300000000"
    /\ \E n \in ExtractedNumbers :
          /\ n.original_text = "2,500 million"
          /\ n.value = "2500000000"

\* a letter of the alphabet
IsLetter(c) == IsWordChar(c) /\ ~IsDigit(c) /\ c # "_"

\* the digits of the text all stand inside a word: each follows a letter or
\* a digit that does (so the text holds no figure of its own)
DigitsOnlyInsideWords(text) ==
    \A i \in 1..Len(text) :
        IsDigit(CharAt(text, i))
        => IsLetter(CharAt(text, i - 1)) \/ IsDigit(CharAt(text, i - 1))

\* C15: no number is extracted from text without a monetary figure: a group
\* whose chunks hold digits only inside words, as in "garbage123abc", has no
\* number recorded.
C15_NoNumberFromEmbeddedDigits ==
    calculation_data # None
    => \A g \in Range(Groups) :
          (\A c \in Range(g.chunks) : DigitsOnlyInsideWords(c.content))
          => g.metrics = << >>

\* C16: when the query requires a calculation every retrieved chunk is in
\* calculation_data, also when its sub-query carries no year or no company.
C16_AllChunksReachExtraction ==
    (calculation_data # None /\ decomposed # None /\ D.requires_calculation)
    => \A r \in Range(retrieval_results) :
          \A c \in Range(r.retrieved_chunks) :
             \E g \in Range(Groups) : c \in Range(g.chunks)

\* Python: s.startswith(p)
HasPrefix(s, p) == Len(s) >= Len(p) /\ SubSeq(s, 1, Len(p)) = p

\* a text answer_query hands to its caller: a completion, or a message
\* that begins with an error prefix
IsAnswerOrErrorText(t) ==
    \/ t \in Completions
    \/ HasPrefix(t, "Error generating answer: ")
    \/ HasPrefix(t, "Error: ")
    \/ t = NotInitializedMessage

\* C17: answer_query never raises: whatever the searches and the generation
\* call do, it ends with a text that is an answer or a prefixed error
\* message, and a generation call that raised gives the message
\* "Error generating answer: ..." with the text of the exception.
C17_AnswerQueryReturnsText ==
    /\ pc = "done"
       => /\ answer # None
          /\ IsAnswerOrErrorText(answer[1])
          /\ answer[1] \notin Completions \cup {NotInitializedMessage}
             => \E e \in GenerationErrors :
                   answer[1] = "Error generating answer: " \o e
    /\ (last_return # None /\ last_return[1].op = "answer_query")
       => IsAnswerOrErrorText(last_return[1].value)

\* C17 witness: a search raised, the generation call raised, and
\* answer_query is about to return the error message.
C17_Witness ==
    /\ pc = "done"
    /\ \E k \in 1..Len(search_log) : search_log[k].raised
    /\ generate_calls = 1
    /\ answer = Some("Error generating answer: Request timed out.")

\* C18: in one answer_query call the search capability is called exactly
\* once for each retrievable sub-query the loop has passed, in their order,
\* and the generation capability at most once: nothing is retried.
C18_EachExternalCallAtMostOnce ==
    /\ generate_calls <= 1
    /\ decomposed = None => search_log = << >>
    /\ decomposed # None
       => [k \in 1..Len(search_log) |-> search_log[k].sub_query]
              = SelectSeq(SubSeq(SubQueries, 1, idx - 1), IsRetrievable)

\* C18 witness: the call is over after a search that raised, a search that
\* found nothing and a generation call that failed.
C18_Witness ==
    /\ pc = "done"
    /\ Len(search_log) = 3
    /\ search_log[1].raised
    /\ ~search_log[2].raised
    /\ retrieval_results[2].retrieved_chunks = << >>
    /\ generate_calls = 1
    /\ answer # None
    /\ answer[1] \notin Completions

\* the stages in their order (0: no call in progress, 6: about to return)
StageOf(p) ==
    CASE p = "idle" -> 0 [] p = "decompose" -> 1 [] p = "retrieve" -> 2
      [] p = "extract" -> 3 [] p = "synthesize" -> 4 [] p = "generate" -> 5
      [] p = "done" -> 6

C19_Step ==
    /\ (pc' # pc /\ pc' # "idle") => StageOf(pc') > StageOf(pc)
    /\ (pc' = pc) => pc \in {"idle", "retrieve"}
    /\ pc' = "generate" => pc = "synthesize"
    /\ (pc' = "done" /\ pc # "idle") => pc = "generate"
    /\ Len(search_log') > Len(search_log)
       => /\ pc = "retrieve"
          /\ calculation_data = None
          /\ synthesized_context = None
          /\ generate_calls = 0
    /\ (calculation_data' # None /\ calculation_data = None)
       => /\ pc = "extract"
          /\ D.requires_calculation
          /\ synthesized_context = None
    /\ (synthesized_context' # None /\ synthesized_context = None)
       => /\ pc = "synthesize"
          /\ idx > Len(SubQueries)
          /\ generate_calls = 0
          /\ calculation_data # None <=> D.requires_calculation
    /\ generate_calls' > generate_calls
       => /\ pc = "generate"
          /\ synthesized_context # None
          /\ calculation_data' = calculation_data

\* C19: one call passes through DECOMPOSE, RETRIEVE, EXTRACT, SYNTHESIZE,
\* GENERATE in this order and never goes back; every search comes before
\* the synthesis, the synthesis before the generation call, and
\* calculation data is extracted exactly when requires_calculation is true.
C19_StagesInOrder == [][C19_Step]_vars

\* C19 witness: a call that went through all five stages.
C19_Witness ==
    /\ pc = "done"
    /\ Len(search_log) >= 2
    /\ calculation_data # None
    /\ synthesized_context # None
    /\ generate_calls = 1

C20_Step ==
    /\ ~Quiescent => UNCHANGED << is_initialized, document_chunks >>
    /\ pc' = "decompose"
       => /\ decomposed' = None
          /\ retrieval_results' = << >>
          /\ search_log' = << >>
          /\ calculation_data' = None
          /\ synthesized_context' = None
    /\ pc = "decompose"
       => decomposed' = Some(Decomposition(query).decomposed)
    /\ (decomposed # None /\ ~Quiescent')
       => decomposed' = decomposed /\ query' = query
    /\ pc = "synthesize"
       => /\ retrieval_results' = retrieval_results
          /\ Entries' = SubSeq(DeduplicateAndRank(RetrievedChunks), 1,
                               Len(Entries'))
          /\ synthesized_context'[1].query = query
    /\ Quiescent'
       => /\ decomposed' = None
          /\ retrieval_results' = << >>
          /\ synthesized_context' = None

\* C20: processing a query changes no state that outlives it: the
\* assistant's state is left as it was, every call starts without results
\* of an earlier one, the decomposition is a function of the query alone
\* and the context a function of the query and of the results of its own
\* searches.
C20_NoStateCarriedOver == [][C20_Step]_vars

\* C20 witness: a query was answered and the assistant is ready for the
\* next one.
C20_Witness ==
    /\ Quiescent
    /\ last_return # None
    /\ last_return[1].op = "answer_query"
    /\ last_return[1].value \in Completions
    /\ retrieval_results = << >>
    /\ decomposed = None

(* Storage, decomposition details, deduplication and the life cycle *)

\* the points of the collection whose payload names chunk_id
PointsOf(chunk_id) ==
    { k \in 1..Len(collection[1]) : collection[1][k] = chunk_id }

\* C21: storing chunks is an idempotent upsert by chunk identity: however
\* often the same chunks were stored, the collection holds exactly one
\* point per chunk_id, as after one call of store_chunks.
C21_OnePointPerChunkId ==
    collection # None
    => \A k \in 1..Len(collection[1]) :
          Cardinality(PointsOf(collection[1][k])) = 1

\* C22: in every DecomposedQuery that decompose_query returns,
\* calculation_type is set exactly when requires_calculation is true, and
\* requires_calculation is true exactly when the classified type is not
\* SIMPLE_DIRECT.
C22_CalculationTypeIffRequired ==
    JustDecomposed
    => /\ (D.calculation_type # None) <=> D.requires_calculation
       /\ D.requires_calculation <=> (D.query_type # SIMPLE_DIRECT)

\* C22 witness: an explicit CALCULATION query with its flag and its
\* calculation_type set.
C22_Witness ==
    /\ JustDecomposed
    /\ D.query_type = CALCULATION
    /\ D.requires_calculation
    /\ D.calculation_type = Some("general")

\* C23: a COMPARATIVE query with exactly one company and at least one
\* metric gets one SIMPLE_DIRECT sub-query per extracted year, for one or
\* more years, tagged with the company, the first metric and that year,
\* followed by a CALCULATION sub-query exactly when two years were
\* extracted.
C23_ComparativeOneSubQueryPerYear ==
    ( /\ JustDecomposed
      /\ D.query_type = COMPARATIVE
      /\ Len(companies) = 1
      /\ Len(metrics) >= 1
      /\ Len(years) >= 1 )
    => LET n == Len(years)
       IN  /\ Len(SubQueries) = IF n = 2 THEN n + 1 ELSE n
           /\ \A k \in 1..n :
                 /\ SubQueries[k].query_type = SIMPLE_DIRECT
                 /\ SubQueries[k].company = Some(companies[1])
                 /\ SubQueries[k].metric = Some(metrics[1])
                 /\ SubQueries[k].year = Some(years[k])
           /\ n = 2 => SubQueries[n + 1].query_type = CALCULATION

HasGrowthKeyword == ContainsAny(Lower(query), growth_keywords)
HasComparisonKeyword == ContainsAny(Lower(query), comparison_keywords)

\* C24: when requires_calculation is true, calculation_type is 'growth'
\* if the query contains a growth keyword, else 'comparison' if it
\* contains a comparison keyword, else 'general'; growth wins when both
\* kinds occur.
C24_CalculationTypeByKeyword ==
    (JustDecomposed /\ D.requires_calculation)
    => LET growth     == HasGrowthKeyword
           comparison == HasComparisonKeyword
       IN  /\ growth => D.calculation_type = Some("growth")
           /\ (~growth /\ comparison)
                  => D.calculation_type = Some("comparison")
           /\ (~growth /\ ~comparison)
                  => D.calculation_type = Some("general")

\* C24 witness: a query with a growth keyword and a comparison keyword
\* whose calculation_type is 'growth'.
C24_Witness ==
    /\ JustDecomposed
    /\ D.requires_calculation
    /\ HasGrowthKeyword
    /\ HasComparisonKeyword
    /\ D.calculation_type = Some("growth")

\* C25 as stated: among the queries process_query hands to decompose_query
\* there is one that is returned with query_type COMPARATIVE and
\* calculation_type 'comparison'.
C25_ComparativeWithComparisonExists ==
    pc = "decompose"
    => \E q \in Queries :
          LET d == DecompositionOf[q].decomposed
          IN  /\ d.query_type = COMPARATIVE
              /\ d.calculation_type = Some("comparison")

\* C25, amended: no query is decomposed with query_type COMPARATIVE and
\* calculation_type 'comparison'; a COMPARATIVE query has calculation_type
\* 'growth' or 'general'.
C25_ComparativeNeverComparison ==
    (JustDecomposed /\ D.query_type = COMPARATIVE)
    => D.calculation_type \in {Some("growth"), Some("general")}

\* C25 witness: a COMPARATIVE query that says "compare" and has
\* calculation_type 'general'.
C25_Witness ==
    /\ JustDecomposed
    /\ D.query_type = COMPARATIVE
    /\ Contains(Lower(query), "compare")
    /\ D.calculation_type = Some("general")

\* the chunk_ids of a list of tagged chunks
ChunkIds(chunks) == { chunks[k].chunk.chunk_id : k \in 1..Len(chunks) }

\* the position in (sub-query order, then result order) at which chunk_id
\* was first returned
FirstReturned(returned, chunk_id) ==
    CHOOSE i \in 1..Len(returned) :
        /\ returned[i].chunk.chunk_id = chunk_id
        /\ \A j \in 1..(i - 1) : returned[j].chunk.chunk_id # chunk_id

\* kept holds every chunk_id of returned once, in the copy returned first
KeepsFirstOccurrences(kept, returned) ==
    /\ Cardinality(ChunkIds(kept)) = Len(kept)
    /\ ChunkIds(kept) = ChunkIds(returned)
    /\ \A k \in 1..Len(kept) :
          kept[k] = returned[FirstReturned(returned, kept[k].chunk.chunk_id)]

\* C26: after the deduplication of synthesize_context no two kept chunks
\* share a chunk_id, every chunk_id of the retrieval results is kept
\* exactly once, and the kept copy is the one returned first, tagged with
\* the text of the sub-query that returned it first; the entries of the
\* context are kept chunks.
C26_FirstOccurrenceKeptOnce ==
    synthesized_context # None
    => LET returned == RetrievedChunks
           kept     == Deduplicate(returned, {})
           entries  == Entries
       IN  /\ KeepsFirstOccurrences(kept, returned)
           /\ Range(entries) \subseteq Range(kept)
           /\ Cardinality(ChunkIds(entries)) = Len(entries)

\* C26 witness: a later sub-query returned a chunk again with another
\* score, and the context holds the copy of the sub-query that returned it
\* first.
C26_Witness ==
    /\ synthesized_context # None
    /\ LET returned == RetrievedChunks
           entries  == Range(Entries)
       IN  \E i, j \in 1..Len(returned) :
              /\ i < j
              /\ returned[i].chunk.chunk_id = returned[j].chunk.chunk_id
              /\ returned[i].chunk.score # returned[j].chunk.score
              /\ returned[i].sub_query # returned[j].sub_query
              /\ FirstReturned(returned, returned[i].chunk.chunk_id) = i
              /\ returned[i] \in entries
              /\ returned[j] \notin entries

\* C27: every DecomposedQuery has at most one CALCULATION sub-query, it is
\* the last sub-query when there is one, and every other sub-query is
\* SIMPLE_DIRECT.
C27_CalculationOnlyLast ==
    JustDecomposed
    => \A k \in 1..Len(SubQueries) :
          IF SubQueries[k].query_type = CALCULATION
          THEN k = Len(SubQueries)
          ELSE SubQueries[k].query_type = SIMPLE_DIRECT

\* C27 witness: a two-year COMPARATIVE decomposition, two SIMPLE_DIRECT
\* sub-queries followed by the CALCULATION one.
C27_Witness ==
    /\ JustDecomposed
    /\ D.query_type = COMPARATIVE
    /\ Len(SubQueries) = Len(years) + 1
    /\ SubQueries[1].query_type = SIMPLE_DIRECT
    /\ SubQueries[Len(SubQueries)].query_type = CALCULATION

\* C28: the classified type of a query is CROSS_COMPANY, COMPARATIVE,
\* CALCULATION or SIMPLE_DIRECT and never TEMPORAL, which is a member of
\* QueryType.
C28_NeverTemporal ==
    /\ TEMPORAL_TYPE \in QueryType
    /\ JustDecomposed
       => /\ D.query_type \in
                {CROSS_COMPANY, COMPARATIVE, CALCULATION, SIMPLE_DIRECT}
          /\ D.query_type # TEMPORAL_TYPE

\* C28 witness: a query with a temporal keyword, one company at most and
\* one year at most is classified COMPARATIVE.
C28_Witness ==
    /\ JustDecomposed
    /\ Len(companies) <= 1
    /\ Len(years) <= 1
    /\ ContainsAny(Lower(query), temporal_keywords)
    /\ D.query_type = COMPARATIVE

\* r records that the call op returned value
IsReturn(r, op, value) == r # None /\ r[1].op = op /\ r[1].value = value

\* C29, one step: the pipeline runs, searches and generates only while
\* is_initialized is true; without it answer_query returns the
\* not-initialized message; is_initialized becomes true only in a
\* setup_vector_database that stored the non-empty document_chunks; and
\* reset_system leaves it false.
C29_Step ==
    /\ (pc \notin {"idle", "done"} \/ search_log # << >> \/ generate_calls > 0)
           => is_initialized
    /\ (pc = "done" /\ ~is_initialized)
           => answer = Some(NotInitializedMessage)
    /\ (~is_initialized /\ is_initialized')
           => /\ \/ IsReturn(last_return', "setup_vector_database", TRUE)
                 \/ IsReturn(last_return', "load_from_processed_data", TRUE)
              /\ document_chunks' # << >>
              /\ collection' =
                     Some((IF collection = None THEN << >> ELSE collection[1])
                              \o document_chunks')
    /\ IsReturn(last_return', "reset_system", TRUE) => ~is_initialized'

\* C29: over any sequence of setup_vector_database, answer_query and
\* reset_system calls the search and generation capabilities are used only
\* while is_initialized is true, is_initialized becomes true only when
\* setup_vector_database stored a non-empty chunk list, and after
\* reset_system answer_query returns the not-initialized message, without
\* search or generation, until a later setup succeeds.
C29_OnlyWhileInitialized == [][C29_Step]_vars

\* C29 witness: after a successful setup and a reset_system that left the
\* stored points behind, answer_query has the not-initialized message to
\* return and made no search or generation call.
C29_Witness ==
    /\ pc = "done"
    /\ ~is_initialized
    /\ collection # None
    /\ collection[1] # << >>
    /\ answer = Some(NotInitializedMessage)
    /\ search_log = << >>
    /\ generate_calls = 0

\* C30: whenever load_from_processed_data has returned True the assistant
\* is initialized, so that the next answer_query does not return the
\* not-initialized message.
C30_LoadedMeansInitialized ==
    IsReturn(last_return, "load_from_processed_data", TRUE) => is_initialized

===========================================================================
